---- MODULE Spec2Model ----
(***************************************************************************)
(* DigitalOceanDeviceAPI (digitalocean_flocker_plugin.py): the block       *)
(* device controller of the flocker DigitalOcean plugin, together with the *)
(* provider it drives.                                                     *)
(*                                                                         *)
(* Text is a sequence of one-character strings.  Python's None and the     *)
(* empty list are both the empty sequence where the code only tests        *)
(* truthiness (droplet_ids).  Time is counted in ticks, TicksPerUnit ticks *)
(* to one unit of time.time().                                             *)
(***************************************************************************)
EXTENDS Integers, Sequences, FiniteSets, TLC

\* ------------------------------------------------------------------ bounds

\* Ticks per unit of time.time(): the resolution of the clock of the model.
TicksPerUnit == 2
\* Time (ticks) the request of Action.get_object takes.
GetObjectLatency == 1
\* Total time (ticks) by which the sleeps of one wait may overrun.
MaxOversleep == 1
\* Longest list of volumes handed to the classifier.
MaxInput == 3
\* Largest count of whole GiB in a size create_volume is called with.
MaxGib == 2
\* Time (ticks) up to which two concurrent attach_volume calls are followed.
MaxRaceTime == 3

\* --------------------------------------------------------------- constants

_ONE_GIB == 1073741824
_poll == 1
_timeout == 60

_PREFIX == <<"f", "l", "o", "c", "k", "e", "r", "-", "v", "1", "-">>

\* "flocker-v1-cluster-id: " of volume_description
DescriptionHead ==
    <<"f", "l", "o", "c", "k", "e", "r", "-", "v", "1", "-", "c", "l", "u",
      "s", "t", "e", "r", "-", "i", "d", ":", " ">>

\* "/dev/disk/by-id/scsi-0DO_Volume_" of get_device_path
DevicePathHead ==
    <<"/", "d", "e", "v", "/", "d", "i", "s", "k", "/", "b", "y", "-", "i",
      "d", "/", "s", "c", "s", "i", "-", "0", "D", "O", "_", "V", "o", "l",
      "u", "m", "e", "_">>

\* ------------------------------------------------------------ the universe

\* The callers and the volume ids of a behaviour are the domains of pc and
\* of volumes, as its initial state sets them.
Callers == {"c1"}
VolIds == {"1234"}
Droplets == {"42", "16"}
Regions == {"oxia-planum"}
\* The provider's action slots: the actions that can be in flight at once.
ActionIds == {1, 2}
\* The droplets of the account, and the states a droplet is in.
NodeIds == {"42", "32"}
DropletStatuses == {"active", "off"}

\* The cluster ids of this controller and of another deployment.
ClusterIds == {<<"A">>, <<"B">>}

HexDigits ==
    <<"0", "1", "2", "3", "4", "5", "6", "7", "8", "9", "a", "b", "c", "d",
      "e", "f">>

\* A UUID is its 128-bit value, written as 32 digits of 0..15.
\* 0ff66359-4f63-47c8-a950-ff5de6f6225e and
\* 55eacb0e-962c-4c60-911f-b43d34ec3f85 of the test data.
Uuid1 ==
    <<0, 15, 15, 6, 6, 3, 5, 9, 4, 15, 6, 3, 4, 7, 12, 8,
      10, 9, 5, 0, 15, 15, 5, 13, 14, 6, 15, 6, 2, 2, 5, 14>>
Uuid2 ==
    <<5, 5, 14, 10, 12, 11, 0, 14, 9, 6, 2, 12, 4, 12, 6, 0,
      9, 1, 1, 15, 11, 4, 3, 13, 3, 4, 14, 12, 3, 15, 8, 5>>
DatasetIds == {Uuid1, Uuid2}

NoVol == [none |-> TRUE]
NoAction == [none |-> TRUE]
NoRecord == [none |-> TRUE]
NoDataset == <<>>
None == "None"

\* ------------------------------------------------------------------- text

StartsWith(s, p) ==
    /\ Len(s) >= Len(p)
    /\ SubSeq(s, 1, Len(p)) = p

Drop(s, n) == SubSeq(s, n + 1, Len(s))

RECURSIVE Without(_, _)
Without(s, ch) ==
    IF s = <<>> THEN <<>>
    ELSE IF Head(s) = ch THEN Without(Tail(s), ch)
    ELSE <<Head(s)>> \o Without(Tail(s), ch)

IsHexDigit(ch) == \E k \in 1..16 : HexDigits[k] = ch

HexValue(ch) == (CHOOSE k \in 1..16 : HexDigits[k] = ch) - 1

\* UUID.hex: the 32 lower-case hexadecimal digits of the value.
UuidHex(u) == [k \in 1..Len(u) |-> HexDigits[u[k] + 1]]

\* uuid.UUID(hex): hyphens are removed, then exactly 32 hexadecimal digits
\* are required; anything else raises ValueError.
UUID(text) ==
    LET hex == Without(text, "-")
    IN  IF Len(hex) = 32 /\ \A k \in 1..32 : IsHexDigit(hex[k])
        THEN [raised |-> FALSE, value |-> [k \in 1..32 |-> HexValue(hex[k])]]
        ELSE [raised |-> TRUE, value |-> NoDataset]

\* ---------------------------------------------------------- IdentityCodec

_unmangle_dataset(vol_name) ==
    IF vol_name # <<>> /\ StartsWith(vol_name, _PREFIX)
    THEN UUID(Drop(vol_name, Len(_PREFIX)))
    ELSE [raised |-> FALSE, value |-> NoDataset]

\* _mangle_dataset writing the UUID as str() does, in groups of 8-4-4-4-12
\* digits.
_mangle_dataset_hyphenated(dataset_id) ==
    LET hex == UuidHex(dataset_id)
    IN  _PREFIX \o SubSeq(hex, 1, 8) \o <<"-">> \o SubSeq(hex, 9, 12)
                \o <<"-">> \o SubSeq(hex, 13, 16) \o <<"-">>
                \o SubSeq(hex, 17, 20) \o <<"-">> \o SubSeq(hex, 21, 32)

_mangle_dataset(dataset_id) == _PREFIX \o UuidHex(dataset_id)

\* volume_description leaving the cluster id out.
volume_description_unstamped(cluster_id) == DescriptionHead

volume_description(cluster_id) == DescriptionHead \o cluster_id

\* ------------------------------------------------------------- conversion

\* The first element of droplet_ids, or None.
AttachedOf(do_volume) ==
    IF do_volume.droplet_ids # <<>> THEN do_volume.droplet_ids[1] ELSE None

\* BlockDeviceVolume(blockdevice_id, size, attached_to, dataset_id); size is
\* in GiB here (the code multiplies by _ONE_GIB), raised is the ValueError of
\* _unmangle_dataset.
_to_block_device_volume(do_volume) ==
    LET dataset == _unmangle_dataset(do_volume.name)
    IN  IF dataset.raised
        THEN [raised |-> TRUE, none |-> FALSE]
        ELSE [raised |-> FALSE,
              none |-> FALSE,
              blockdevice_id |-> do_volume.id,
              size_gib |-> do_volume.size_gigabytes,
              attached_to |-> AttachedOf(do_volume),
              dataset_id |-> dataset.value]

\* ------------------------------------------------------------------ state

VARIABLES
    volumes,      \* provider: volume id -> volume, or NoVol
    actions,      \* provider: action id -> action, or NoAction
    droplets,     \* provider: droplet id -> droplet
    now,          \* time.time(), in ticks
    metadata,     \* self._metadata
    load_count,   \* calls of Metadata.load()
    pc,           \* per caller: where its operation stands
    op,           \* per caller: the operation and its arguments
    fetched,      \* per caller: the volume as get_volume returned it
    vol,          \* per caller: the volume object vol of the operation
    r,            \* per caller: r['action']['id'] of the mutation
    action,       \* per caller: the Action object of the wait
    wait,         \* per caller: how _await_action ended
    calls,        \* per caller: the provider mutations issued so far
    started_at,   \* per caller: started_at of _await_action
    issued_at,    \* per caller: when the mutation was issued
    i,            \* per caller: i of _await_action
    slack,        \* per caller: oversleep used by this wait
    polls,        \* per caller: calls of load_directly in this wait
    result        \* per caller: what the operation returned or raised

provider == <<volumes, actions, droplets>>
controller == <<metadata, load_count>>
waiter == <<action, wait, started_at, i, slack, polls>>
vars ==
    <<volumes, actions, droplets, now, metadata, load_count, pc, op, fetched,
      vol, r, action, wait, calls, started_at, issued_at, i, slack, polls,
      result>>

\* The cluster id this controller was constructed with.
_cluster_id == <<"A">>

Statuses == {"in-progress", "completed", "errored"}
FailStatuses == Statuses \ {"in-progress", "completed"}

NoOp == [name |-> None, blockdevice_id |-> None, attach_to |-> None]
NoWait == [ended |-> FALSE, value |-> None, message |-> None,
           status |-> None, at |-> 0]
NoResult == [outcome |-> None, value |-> NoRecord, message |-> None,
             status |-> None]

Returned(v) ==
    [outcome |-> "returned", value |-> v, message |-> None, status |-> None]

Raised(exc, message, status) ==
    [outcome |-> exc, value |-> NoRecord, message |-> message,
     status |-> status]

\* pc labels at which a caller still reads the provider's copy of its action
AwaitLabels == {"await:get_object", "await:loop"}

Awaited(a) == \E c \in DOMAIN pc : pc[c] \in AwaitLabels /\ r[c] = a

Quiet == \A c \in DOMAIN pc : pc[c] = "idle"

\* ---------------------------------------------------------------- provider

Volume(id, name, description, droplet_ids, region, size_gigabytes) ==
    [none |-> FALSE, id |-> id, name |-> name, description |-> description,
     droplet_ids |-> droplet_ids, region |-> [slug |-> region],
     size_gigabytes |-> size_gigabytes]

\* Manager.get_volume: the volume, or NoVol for NotFoundError.
Manager_get_volume(blockdevice_id) == volumes[blockdevice_id]

FreeActionIds == {a \in ActionIds : actions[a].none}

NewActionId == CHOOSE a \in FreeActionIds : \A b \in FreeActionIds : a <= b

\* The provider accepts an attach or detach request: a new action, in
\* progress.
ProviderAction(type, id, droplet) ==
    [actions EXCEPT ![NewActionId] =
        [none |-> FALSE, type |-> type, volume |-> id, droplet |-> droplet,
         status |-> "in-progress"]]

RECURSIVE Remove(_, _)
Remove(s, x) ==
    IF s = <<>> THEN <<>>
    ELSE IF Head(s) = x THEN Remove(Tail(s), x)
    ELSE <<Head(s)>> \o Remove(Tail(s), x)

Contains(s, x) == \E k \in 1..Len(s) : s[k] = x

Droplet(id, status) == [none |-> FALSE, id |-> id, status |-> status]

\* Manager.get_droplet
Manager_get_droplet(droplet_id) == droplets[droplet_id]

\* What a completed power-on does to its droplet.
PoweredOn(a) ==
    IF a.type = "power_on"
    THEN [droplets EXCEPT ![a.droplet].status = "active"]
    ELSE droplets

\* What a completed action does to its volume.
Effect(a) ==
    LET v == volumes[a.volume]
    IN  IF a.type = "power_on" THEN volumes
        ELSE IF v.none THEN volumes
        ELSE IF a.type = "attach"
        THEN IF Contains(v.droplet_ids, a.droplet) THEN volumes
             ELSE [volumes EXCEPT ![a.volume].droplet_ids =
                      Append(@, a.droplet)]
        ELSE [volumes EXCEPT ![a.volume].droplet_ids = Remove(@, a.droplet)]

\* An action that reached a final status stays readable only while a caller
\* waits on it.
Settle(acts, a, status) ==
    IF Awaited(a) THEN [acts EXCEPT ![a].status = status]
    ELSE [acts EXCEPT ![a] = NoAction]

\* The provider finishes an action: completed (with its effect) or failed.
ProviderStep(a, status) ==
    /\ ~actions[a].none
    /\ actions[a].status = "in-progress"
    /\ status \in Statuses \ {"in-progress"}
    /\ volumes' = IF status = "completed" THEN Effect(actions[a]) ELSE volumes
    /\ droplets' = IF status = "completed" THEN PoweredOn(actions[a])
                   ELSE droplets
    /\ actions' = Settle(actions, a, status)
    /\ UNCHANGED <<now, controller, pc, op, fetched, vol, r, waiter, calls,
                   issued_at, result>>

\* The provider's copy of an action is dropped once its caller has read a
\* final status.
Release(a) ==
    IF actions[a].status = "in-progress" THEN actions
    ELSE [actions EXCEPT ![a] = NoAction]

\* Volume.destroy at the provider: the volume and its actions go.
Destroyed(id) ==
    [a \in ActionIds |->
        IF actions[a].none \/ actions[a].volume # id THEN actions[a]
        ELSE IF Awaited(a) THEN [actions[a] EXCEPT !.status = "errored"]
        ELSE NoAction]

\* ------------------------------------------------------------- ActionWaiter

Max(a, b) == IF a >= b THEN a ELSE b
Min(a, b) == IF a <= b THEN a ELSE b

\* _should_wait_on with the deadline counted from the request that created
\* the action instead of from started_at.
_should_wait_on_from_creation(act, from_time, time) ==
    \/ act.none
    \/ /\ act.status = "in-progress"
       /\ time - (from_time - GetObjectLatency) < _timeout * TicksPerUnit

\* _should_wait_on(action, from_time); time is what time.time() returns
_should_wait_on(act, from_time, time) ==
    \/ act.none
    \/ /\ act.status = "in-progress"
       /\ time - from_time < _timeout * TicksPerUnit

\* delta of _await_action as a fixed delay of one tick.
Delta_one_tick(from_time, time) == 1

\* delta of _await_action: the delay handed to the scheduler
Delta(from_time, time) ==
    Max(0, Min(_poll * TicksPerUnit,
               _timeout * TicksPerUnit - (time - from_time)))

\* The head of _await_action reporting success when there is no action.
_await_action_entry_none_succeeds(act) ==
    IF act.none \/ act.status = "completed" THEN "True"
    ELSE "loop"

\* The head of _await_action: "True" and "False" are returned at once,
\* "loop" goes on to the polling loop.
_await_action_entry(act) ==
    IF ~act.none /\ act.status = "completed" THEN "True"
    ELSE IF act.none THEN "False"
    ELSE "loop"

\* The tail of _await_action giving up silently at the deadline.
_await_action_exit_timeout_none(act) ==
    IF act.status = "completed"
    THEN [raised |-> FALSE, value |-> "True", message |-> None,
          status |-> None]
    ELSE IF act.status = "in-progress"
    THEN [raised |-> FALSE, value |-> None, message |-> None,
          status |-> None]
    ELSE [raised |-> TRUE, value |-> None, message |-> "Action failed ({r})",
          status |-> act.status]

\* The tail of _await_action returning False for a failed action.
_await_action_exit_failure_returns(act) ==
    IF act.status = "completed"
    THEN [raised |-> FALSE, value |-> "True", message |-> None,
          status |-> None]
    ELSE IF act.status = "in-progress"
    THEN [raised |-> TRUE, value |-> None, message |-> "Wait timeout",
          status |-> None]
    ELSE [raised |-> FALSE, value |-> "False", message |-> None,
          status |-> None]

\* The tail of _await_action returning False where it raises on timeout.
_await_action_exit_timeout_returns(act) ==
    IF act.status = "completed"
    THEN [raised |-> FALSE, value |-> "True", message |-> None,
          status |-> None]
    ELSE IF act.status = "in-progress"
    THEN [raised |-> FALSE, value |-> "False", message |-> None,
          status |-> None]
    ELSE [raised |-> TRUE, value |-> None, message |-> "Action failed ({r})",
          status |-> act.status]

\* The tail of _await_action raising the timeout for every unfinished wait.
_await_action_exit_always_timeout(act) ==
    IF act.status = "completed"
    THEN [raised |-> FALSE, value |-> "True", message |-> None,
          status |-> None]
    ELSE [raised |-> TRUE, value |-> None, message |-> "Wait timeout",
          status |-> None]

\* The tail of _await_action, after the loop.
_await_action_exit(act) ==
    IF act.status = "completed"
    THEN [raised |-> FALSE, value |-> "True", message |-> None,
          status |-> None]
    ELSE IF act.status = "in-progress"
    THEN [raised |-> TRUE, value |-> None, message |-> "Wait timeout",
          status |-> None]
    ELSE [raised |-> TRUE, value |-> None, message |-> "Action failed ({r})",
          status |-> act.status]

\* _await_action_id has no return statement: whatever _await_action
\* returned, its caller gets None.
_await_action_id(awaited) == None

Truthy(x) == x = "True"

Goto(c, label) ==
    /\ pc' = [pc EXCEPT ![c] = label]
    /\ UNCHANGED result

Finish(c, res) ==
    /\ pc' = [pc EXCEPT ![c] = "done"]
    /\ result' = [result EXCEPT ![c] = res]

\* The conversion an operation returns, or the ValueError it raises.
Converted(v) ==
    LET bdv == _to_block_device_volume(v)
    IN  IF bdv.raised THEN Raised("ValueError", None, None)
        ELSE Returned(bdv)

\* The volume object attach_volume converts: droplet_ids is set only if
\* _await_action_id returned something true.
attach_volume_updated(v, attach_to, awaited) ==
    IF Truthy(_await_action_id(awaited))
    THEN [v EXCEPT !.droplet_ids = <<attach_to>>]
    ELSE v

\* The volume object detach_volume converts.
detach_volume_updated(v, awaited) ==
    IF Truthy(_await_action_id(awaited))
    THEN [v EXCEPT !.droplet_ids = <<>>]
    ELSE v

\* _await_action returned awaited: destroy_volume goes on to its next
\* provider request, attach_volume and detach_volume return their record,
\* start_node and a call of _await_action on its own just return.
AfterAwait(c, awaited) ==
    IF op[c].name = "destroy_volume"
    THEN /\ Goto(c, "destroy_volume:destroy")
         /\ UNCHANGED vol
    ELSE IF op[c].name \notin {"attach_volume", "detach_volume"}
    THEN /\ Finish(c, Returned(NoRecord))
         /\ UNCHANGED vol
    ELSE LET v == IF op[c].name = "attach_volume"
                  THEN attach_volume_updated(vol[c], op[c].attach_to, awaited)
                  ELSE detach_volume_updated(vol[c], awaited)
         IN  /\ vol' = [vol EXCEPT ![c] = v]
             /\ Finish(c, Converted(v))

\* _await_action testing the deadline before the status: at or past the
\* deadline it raises the timeout whatever the last poll read.
Awaiting_deadline_first(c, act, from_time, time) ==
    IF _await_action_entry(act) = "loop"
       /\ _should_wait_on(act, from_time, time)
    THEN /\ Goto(c, "await:loop")
         /\ UNCHANGED <<wait, vol>>
    ELSE LET late == /\ ~act.none
                     /\ time - from_time >= _timeout * TicksPerUnit
             out == IF late
                    THEN [raised |-> TRUE, value |-> None,
                          message |-> "Wait timeout", status |-> None]
                    ELSE IF _await_action_entry(act) = "loop"
                    THEN _await_action_exit(act)
                    ELSE [raised |-> FALSE,
                          value |-> _await_action_entry(act),
                          message |-> None, status |-> None]
         IN  /\ wait' = [wait EXCEPT ![c] =
                   [ended |-> TRUE, value |-> out.value,
                    message |-> out.message, status |-> out.status,
                    at |-> time]]
             /\ IF out.raised
                THEN /\ Finish(c, Raised("DOException", out.message,
                                         out.status))
                     /\ UNCHANGED vol
                ELSE AfterAwait(c, out.value)

\* _await_action with the status act.status in hand at time: the loop goes
\* on, or the wait ends (returning, or raising DOException out of the
\* operation).
Awaiting(c, act, from_time, time) ==
    IF _await_action_entry(act) = "loop"
       /\ _should_wait_on(act, from_time, time)
    THEN /\ Goto(c, "await:loop")
         /\ UNCHANGED <<wait, vol>>
    ELSE LET out == IF _await_action_entry(act) = "loop"
                    THEN _await_action_exit(act)
                    ELSE [raised |-> FALSE,
                          value |-> _await_action_entry(act),
                          message |-> None, status |-> None]
         IN  /\ wait' = [wait EXCEPT ![c] =
                   [ended |-> TRUE, value |-> out.value,
                    message |-> out.message, status |-> out.status,
                    at |-> time]]
             /\ IF out.raised
                THEN /\ Finish(c, Raised("DOException", out.message,
                                         out.status))
                     /\ UNCHANGED vol
                ELSE AfterAwait(c, out.value)

\* _await_action_id: Action.get_object, then _await_action up to its loop
await_get_object(c) ==
    /\ pc[c] = "await:get_object"
    /\ now' = now + GetObjectLatency
    /\ LET act == [none |-> FALSE, id |-> r[c], type |-> actions[r[c]].type,
                  status |-> actions[r[c]].status]
       IN  /\ action' = [action EXCEPT ![c] = act]
           /\ Awaiting(c, act, now', now')
    /\ started_at' = [started_at EXCEPT ![c] = now']
    /\ i' = [i EXCEPT ![c] = 0]
    /\ slack' = [slack EXCEPT ![c] = 0]
    /\ polls' = [polls EXCEPT ![c] = 0]
    /\ actions' = Release(r[c])
    /\ UNCHANGED <<volumes, droplets, controller, op, fetched, r, calls,
                   issued_at>>

\* i += 1 counting only every other turn of the loop.
Iterated_every_other(n) == IF n = 0 THEN 1 ELSE n

\* i += 1
Iterated(n) == n + 1

\* One turn of the loop: sleep delta (or longer), load_directly, i += 1,
\* and the loop condition again
await_poll(c, over) ==
    /\ pc[c] = "await:loop"
    /\ over \in 0..(MaxOversleep - slack[c])
    /\ now' = now + Delta(started_at[c], now) + over
    /\ slack' = [slack EXCEPT ![c] = @ + over]
    /\ LET act == [action[c] EXCEPT !.status = actions[action[c].id].status]
       IN  /\ action' = [action EXCEPT ![c] = act]
           /\ Awaiting(c, act, started_at[c], now')
    /\ polls' = [polls EXCEPT ![c] = @ + 1]
    /\ i' = [i EXCEPT ![c] = Iterated(@)]
    /\ actions' = Release(action[c].id)
    /\ UNCHANGED <<volumes, droplets, controller, op, fetched, r, calls,
                   started_at, issued_at>>

\* --------------------------------------------------------- VolumeController

\* get_volume
get_volume(blockdevice_id) == Manager_get_volume(blockdevice_id)

\* An operation starts: its arguments and the volume get_volume returned.
Enter(c, name, blockdevice_id, attach_to, v) ==
    /\ pc[c] = "idle"
    /\ op' = [op EXCEPT ![c] =
          [name |-> name, blockdevice_id |-> blockdevice_id,
           attach_to |-> attach_to]]
    /\ fetched' = [fetched EXCEPT ![c] = v]
    /\ vol' = [vol EXCEPT ![c] = v]

Call(type, v, droplet) ==
    [call |-> type, volume |-> v.id, droplet |-> droplet,
     region |-> v.region.slug]

\* vol.attach / vol.detach: NotFoundError (here UnknownVolume) when the
\* volume is gone, else the id of the new action goes to _await_action_id.
IssueAction(c, type, droplet) ==
    /\ calls' = [calls EXCEPT ![c] = Append(@, Call(type, vol[c], droplet))]
    /\ IF volumes[vol[c].id].none
       THEN /\ Finish(c, Raised("UnknownVolume", op[c].blockdevice_id, None))
            /\ UNCHANGED <<actions, r, issued_at>>
       ELSE /\ FreeActionIds # {}
            /\ actions' = ProviderAction(type, vol[c].id, droplet)
            /\ r' = [r EXCEPT ![c] = NewActionId]
            /\ issued_at' = [issued_at EXCEPT ![c] = now]
            /\ Goto(c, "await:get_object")
    /\ UNCHANGED <<volumes, droplets, now, controller, op, fetched, vol,
                   waiter>>

\* attach_volume refusing only a volume attached to another droplet.
attach_volume_entry_same_droplet(v, attach_to) ==
    IF v.none THEN "UnknownVolume"
    ELSE IF v.droplet_ids # <<>> /\ v.droplet_ids[1] # attach_to
    THEN "AlreadyAttachedVolume"
    ELSE "go"

\* The guards of attach_volume after get_volume.
attach_volume_entry(v, attach_to) ==
    IF v.none THEN "UnknownVolume"
    ELSE IF v.droplet_ids # <<>> THEN "AlreadyAttachedVolume"
    ELSE "go"

attach_volume(c, blockdevice_id, attach_to) ==
    LET v == get_volume(blockdevice_id)
        entry == attach_volume_entry(v, attach_to)
    IN  /\ Enter(c, "attach_volume", blockdevice_id, attach_to, v)
        /\ IF entry = "go"
           THEN Goto(c, "attach_volume:attach")
           ELSE Finish(c, Raised(entry, blockdevice_id, None))
        /\ UNCHANGED <<provider, now, controller, r, waiter, calls,
                       issued_at>>

attach_volume_attach(c) ==
    /\ pc[c] = "attach_volume:attach"
    /\ IssueAction(c, "attach", op[c].attach_to)

\* detach_volume raising the exception of attach_volume.
detach_volume_entry_wrong_exception(v) ==
    IF v.none THEN "UnknownVolume"
    ELSE IF v.droplet_ids = <<>> THEN "AlreadyAttachedVolume"
    ELSE "go"

\* The guards of detach_volume after get_volume.
detach_volume_entry(v) ==
    IF v.none THEN "UnknownVolume"
    ELSE IF v.droplet_ids = <<>> THEN "UnattachedVolume"
    ELSE "go"

detach_volume(c, blockdevice_id) ==
    LET v == get_volume(blockdevice_id)
        entry == detach_volume_entry(v)
    IN  /\ Enter(c, "detach_volume", blockdevice_id, None, v)
        /\ IF entry = "go"
           THEN Goto(c, "detach_volume:detach")
           ELSE Finish(c, Raised(entry, blockdevice_id, None))
        /\ UNCHANGED <<provider, now, controller, r, waiter, calls,
                       issued_at>>

detach_volume_detach(c) ==
    /\ pc[c] = "detach_volume:detach"
    /\ IssueAction(c, "detach", vol[c].droplet_ids[1])

\* destroy_volume going straight to vol.destroy().
destroy_volume_entry_no_detach(v) ==
    IF v.none THEN "UnknownVolume"
    ELSE "destroy_volume:destroy"

\* The branch of destroy_volume after get_volume.
destroy_volume_entry(v) ==
    IF v.none THEN "UnknownVolume"
    ELSE IF v.droplet_ids # <<>> THEN "destroy_volume:detach"
    ELSE "destroy_volume:destroy"

destroy_volume(c, blockdevice_id) ==
    LET v == get_volume(blockdevice_id)
        entry == destroy_volume_entry(v)
    IN  /\ Enter(c, "destroy_volume", blockdevice_id, None, v)
        /\ IF entry = "UnknownVolume"
           THEN Finish(c, Raised(entry, blockdevice_id, None))
           ELSE Goto(c, entry)
        /\ UNCHANGED <<provider, now, controller, r, waiter, calls,
                       issued_at>>

destroy_volume_detach(c) ==
    /\ pc[c] = "destroy_volume:detach"
    /\ IssueAction(c, "detach", vol[c].droplet_ids[1])

\* vol.destroy()
destroy_volume_destroy(c) ==
    /\ pc[c] = "destroy_volume:destroy"
    /\ calls' = [calls EXCEPT ![c] = Append(@, Call("destroy", vol[c], None))]
    /\ IF volumes[vol[c].id].none
       THEN /\ Finish(c, Raised("UnknownVolume", op[c].blockdevice_id, None))
            /\ UNCHANGED <<volumes, actions>>
       ELSE /\ volumes' = [volumes EXCEPT ![vol[c].id] = NoVol]
            /\ actions' = Destroyed(vol[c].id)
            /\ Finish(c, Returned(NoRecord))
    /\ UNCHANGED <<droplets, now, controller, op, fetched, vol, r, waiter,
                   issued_at>>

\* The path get_device_path returns: realpath() of it, or the path itself
\* when realpath() raised.
DevicePath(v, resolves) ==
    [path |-> DevicePathHead \o v.name, resolved |-> resolves]

\* get_device_path letting NotFoundError through.
get_device_path_result_not_found(v, blockdevice_id, resolves) ==
    IF v.none THEN Raised("NotFoundError", blockdevice_id, None)
    ELSE IF v.droplet_ids = <<>>
    THEN Raised("UnattachedVolume", blockdevice_id, None)
    ELSE Returned(DevicePath(v, resolves))

\* get_device_path handing out the path of a volume that is not attached.
get_device_path_result_unattached_path(v, blockdevice_id, resolves) ==
    IF v.none THEN Raised("UnknownVolume", blockdevice_id, None)
    ELSE Returned(DevicePath(v, resolves))

\* The outcome of get_device_path after get_volume.
get_device_path_result(v, blockdevice_id, resolves) ==
    IF v.none THEN Raised("UnknownVolume", blockdevice_id, None)
    ELSE IF v.droplet_ids = <<>>
    THEN Raised("UnattachedVolume", blockdevice_id, None)
    ELSE Returned(DevicePath(v, resolves))

get_device_path(c, blockdevice_id, resolves) ==
    LET v == get_volume(blockdevice_id)
    IN  /\ Enter(c, "get_device_path", blockdevice_id, None, v)
        /\ Finish(c, get_device_path_result(v, blockdevice_id, resolves))
        /\ UNCHANGED <<provider, now, controller, r, waiter, calls,
                       issued_at>>

\* The droplet this controller runs on, as Metadata.load() reports it.
ThisDroplet == "42"
ThisRegion == "oxia-planum"

NoMetadata == [droplet_id |-> None, region |-> None]

\* The metadata property handing out the metadata without loading it.
metadata_get_unloaded(m) == m

\* The metadata property loading on every use.
MetadataLoads_always(m) == TRUE

\* The metadata property: load() runs when no droplet id is held yet.
MetadataLoads(m) == m.droplet_id = None

\* The metadata property: self._metadata after the load that may be due.
metadata_get(m) ==
    IF MetadataLoads(m)
    THEN [droplet_id |-> ThisDroplet, region |-> ThisRegion]
    ELSE m

\* int(gib.value) rounding up instead of truncating.
to_GiB_int_rounding_up(size) ==
    size.gib + (size.rest \div _ONE_GIB)
             + (IF size.rest % _ONE_GIB = 0 THEN 0 ELSE 1)

\* allocation_unit
allocation_unit == _ONE_GIB

\* A byte count is gib * 2^30 + rest.  int(Byte(size).to_GiB().value)
to_GiB_int(size) == size.gib + (size.rest \div _ONE_GIB)

Sizes == {[gib |-> 1, rest |-> 0], [gib |-> 1, rest |-> 536870912]}

FreeVolIds == {id \in DOMAIN volumes : volumes[id].none}

\* create_volume: the provider assigns a free id.
create_volume(c, dataset_id, size) ==
    /\ pc[c] = "idle"
    /\ FreeVolIds # {}
    /\ LET id == CHOOSE x \in FreeVolIds : TRUE
           m == metadata_get(metadata)
           v == Volume(id, _mangle_dataset(dataset_id),
                       volume_description(_cluster_id), <<>>, m.region,
                       to_GiB_int(size))
       IN  /\ metadata' = m
           /\ load_count' = IF MetadataLoads(metadata) THEN load_count + 1
                            ELSE load_count
           /\ op' = [op EXCEPT ![c] =
                 [name |-> "create_volume", blockdevice_id |-> None,
                  attach_to |-> None, dataset_id |-> dataset_id,
                  size |-> size]]
           /\ volumes' = [volumes EXCEPT ![id] = v]
           /\ vol' = [vol EXCEPT ![c] = v]
           /\ calls' = [calls EXCEPT ![c] = Append(@, Call("create", v, None))]
           /\ Finish(c, Converted(v))
    /\ UNCHANGED <<actions, droplets, now, fetched, r, waiter, issued_at>>

\* compute_instance_id up to Metadata.load(): the droplet id held is
\* returned, or load() is due.
compute_instance_id(c) ==
    /\ pc[c] = "idle"
    /\ op' = [op EXCEPT ![c] =
          [name |-> "compute_instance_id", blockdevice_id |-> None,
           attach_to |-> None]]
    /\ IF MetadataLoads(metadata)
       THEN Goto(c, "metadata:load")
       ELSE Finish(c, Returned([none |-> FALSE,
                                text |-> metadata.droplet_id]))
    /\ UNCHANGED <<provider, now, controller, fetched, vol, r, waiter, calls,
                   issued_at>>

\* self._metadata.load(), and the droplet id of self._metadata returned
metadata_load(c) ==
    /\ pc[c] = "metadata:load"
    /\ metadata' = [droplet_id |-> ThisDroplet, region |-> ThisRegion]
    /\ load_count' = load_count + 1
    /\ Finish(c, Returned([none |-> FALSE, text |-> ThisDroplet]))
    /\ UNCHANGED <<provider, now, op, fetched, vol, r, waiter, calls,
                   issued_at>>

\* ------------------------------------------------------ OwnershipClassifier

\* six.text_type(x): None becomes the text "None"
text_type(x) == IF x = <<>> THEN <<"N", "o", "n", "e">> ELSE x

\* dict(wrong_cluster=list(), ignored=list(), okay=list())
NoCategories == [wrong_cluster |-> <<>>, ignored |-> <<>>, okay |-> <<>>]

\* _categorize_do_volume judging the description before the name.
_categorize_do_volume_description_first(result_dict, v) ==
    IF text_type(v.description) # volume_description(_cluster_id)
    THEN [result_dict EXCEPT !.wrong_cluster = Append(@, v)]
    ELSE IF ~StartsWith(text_type(v.name), _PREFIX)
    THEN [result_dict EXCEPT !.ignored = Append(@, v)]
    ELSE [result_dict EXCEPT !.okay = Append(@, v)]

_categorize_do_volume(result_dict, v) ==
    IF ~StartsWith(text_type(v.name), _PREFIX)
    THEN [result_dict EXCEPT !.ignored = Append(@, v)]
    ELSE IF text_type(v.description) # volume_description(_cluster_id)
    THEN [result_dict EXCEPT !.wrong_cluster = Append(@, v)]
    ELSE [result_dict EXCEPT !.okay = Append(@, v)]

\* reduce(self._categorize_do_volume, vols, result_dict)
RECURSIVE reduce_categorize(_, _)
reduce_categorize(vols, result_dict) ==
    IF vols = <<>> THEN result_dict
    ELSE reduce_categorize(Tail(vols),
                           _categorize_do_volume(result_dict, Head(vols)))

\* The reduce of list_volumes on a list of volumes, called on its own.
categorize(c, vols) ==
    /\ pc[c] = "idle"
    /\ op' = [op EXCEPT ![c] =
          [name |-> "_categorize_do_volume", blockdevice_id |-> None,
           attach_to |-> None, vols |-> vols]]
    /\ Finish(c, Returned([none |-> FALSE,
                           res |-> reduce_categorize(vols, NoCategories)]))
    /\ UNCHANGED <<provider, now, controller, fetched, vol, r, waiter, calls,
                   issued_at>>

\* The order in which the provider lists its volumes.
IdOrder == <<"1234", "1235", "1236", "1237">>

Listed(id) == id \in DOMAIN volumes /\ ~volumes[id].none

\* Manager.get_all_volumes
Manager_get_all_volumes ==
    LET ids == SelectSeq(IdOrder, Listed)
    IN  [k \in 1..Len(ids) |-> volumes[ids[k]]]

\* map(self._to_block_device_volume, res["okay"]), a list
map_to_block_device_volume(okay) ==
    [k \in 1..Len(okay) |-> _to_block_device_volume(okay[k])]

\* What list_volumes makes of the provider's list.
list_volumes_result(vols) ==
    LET res == reduce_categorize(vols, NoCategories)
        listed == map_to_block_device_volume(res["okay"])
    IN  IF \E k \in 1..Len(listed) : listed[k].raised
        THEN Raised("ValueError", None, None)
        ELSE Returned([none |-> FALSE, volumes |-> listed])

list_volumes(c) ==
    /\ pc[c] = "idle"
    /\ op' = [op EXCEPT ![c] =
          [name |-> "list_volumes", blockdevice_id |-> None,
           attach_to |-> None]]
    /\ calls' = [calls EXCEPT ![c] =
          Append(@, [call |-> "get_all_volumes", volume |-> None,
                     droplet |-> None, region |-> None])]
    /\ Finish(c, list_volumes_result(Manager_get_all_volumes))
    /\ UNCHANGED <<provider, now, controller, fetched, vol, r, waiter,
                   issued_at>>

\* ------------------------------------------------------------ NodeController

\* start_node powering on whatever the status of the droplet.
start_node_entry_always_power_on(droplet) ==
    IF droplet.none THEN "NotFoundError"
    ELSE "start_node:power_on"

\* start_node up to its test of droplet.status; an unknown droplet is the
\* provider's NotFoundError, which start_node lets through.
start_node_entry(droplet) ==
    IF droplet.none THEN "NotFoundError"
    ELSE IF droplet.status # "active" THEN "start_node:power_on"
    ELSE "return"

start_node(c, droplet_id) ==
    LET droplet == Manager_get_droplet(droplet_id)
        entry == start_node_entry(droplet)
    IN  /\ pc[c] = "idle"
        /\ op' = [op EXCEPT ![c] =
              [name |-> "start_node", blockdevice_id |-> None,
               attach_to |-> None,
               droplet_id |-> droplet_id]]
        /\ fetched' = [fetched EXCEPT ![c] = droplet]
        /\ IF entry = "start_node:power_on" THEN Goto(c, entry)
           ELSE IF entry = "return" THEN Finish(c, Returned(NoRecord))
           ELSE Finish(c, Raised(entry, droplet_id, None))
        /\ UNCHANGED <<provider, now, controller, vol, r, waiter, calls,
                       issued_at>>

\* The head of _await_action with the Action act in hand: started_at is
\* taken, nothing is fetched, and the wait returns or enters its loop.
await_enter(c, act) ==
    /\ action' = [action EXCEPT ![c] = act]
    /\ started_at' = [started_at EXCEPT ![c] = now]
    /\ i' = [i EXCEPT ![c] = 0]
    /\ slack' = [slack EXCEPT ![c] = 0]
    /\ polls' = [polls EXCEPT ![c] = 0]
    /\ Awaiting(c, act, now, now)

\* action = droplet.power_on(return_dict=False); self._await_action(action).
\* The Action holds the status of the provider's response.
start_node_power_on(c, status) ==
    /\ pc[c] = "start_node:power_on"
    /\ FreeActionIds # {}
    /\ calls' = [calls EXCEPT ![c] =
          Append(@, [call |-> "power_on", volume |-> None,
                     droplet |-> fetched[c].id, region |-> None])]
    /\ r' = [r EXCEPT ![c] = NewActionId]
    /\ issued_at' = [issued_at EXCEPT ![c] = now]
    /\ actions' = IF status = "in-progress"
                  THEN ProviderAction("power_on", None, fetched[c].id)
                  ELSE actions
    /\ droplets' = IF status = "completed"
                   THEN [droplets EXCEPT ![fetched[c].id].status = "active"]
                   ELSE droplets
    /\ await_enter(c, [none |-> FALSE, id |-> NewActionId,
                       type |-> "power_on", status |-> status])
    /\ UNCHANGED <<volumes, now, controller, op, fetched>>

\* The Action of the provider's action a as a caller holds it; no Action
\* (None) for the id 0 and for an action the provider does not hold.
HandleOf(a) ==
    IF a \notin ActionIds \/ actions[a].none THEN NoAction
    ELSE [none |-> FALSE, id |-> a, type |-> actions[a].type,
          status |-> actions[a].status]

\* The Action objects a caller can hold: none, or one of an action in
\* flight at the provider that nobody waits on.
Handles == {HandleOf(a) : a \in {b \in ActionIds : ~Awaited(b)}} \cup {NoAction}

\* _await_action(action), called on its own.
_await_action(c, act) ==
    /\ pc[c] = "idle"
    /\ act \in Handles
    /\ op' = [op EXCEPT ![c] =
          [name |-> "_await_action", blockdevice_id |-> None,
           attach_to |-> None]]
    /\ r' = [r EXCEPT ![c] = IF act.none THEN 0 ELSE act.id]
    /\ issued_at' = [issued_at EXCEPT ![c] = now]
    /\ await_enter(c, act)
    /\ UNCHANGED <<provider, now, controller, fetched, calls>>

\* The order in which the provider lists its droplets.
NodeOrder == <<"42", "32">>

Held(n) == n \in DOMAIN droplets /\ ~droplets[n].none

\* Manager.get_all_droplets
Manager_get_all_droplets ==
    LET ids == SelectSeq(NodeOrder, Held)
    IN  [k \in 1..Len(ids) |-> droplets[ids[k]]]

\* The filter of list_live_nodes letting every droplet through.
IsLive_any(x) == TRUE

\* lambda x: x.status == 'active'
IsLive(x) == x.status = "active"

\* map(lambda x: six.text_type(x.id), filter(..., all_droplets)), a list
list_live_nodes_result(all_droplets) ==
    LET live == SelectSeq(all_droplets, IsLive)
    IN  [k \in 1..Len(live) |-> live[k].id]

list_live_nodes(c) ==
    LET all_droplets == Manager_get_all_droplets
    IN  /\ pc[c] = "idle"
        /\ op' = [op EXCEPT ![c] =
              [name |-> "list_live_nodes", blockdevice_id |-> None,
               attach_to |-> None, all_droplets |-> all_droplets]]
        /\ Finish(c, Returned([none |-> FALSE,
                               nodes |-> list_live_nodes_result(all_droplets)]))
        /\ UNCHANGED <<provider, now, controller, fetched, vol, r, waiter,
                       calls, issued_at>>

\* The caller takes the outcome; the frame of the operation is gone, and
\* the clock starts afresh for the next one while no operation runs.
Return(c) ==
    /\ pc[c] = "done"
    /\ pc' = [pc EXCEPT ![c] = "idle"]
    /\ op' = [op EXCEPT ![c] = NoOp]
    /\ fetched' = [fetched EXCEPT ![c] = NoVol]
    /\ vol' = [vol EXCEPT ![c] = NoVol]
    /\ r' = [r EXCEPT ![c] = 0]
    /\ action' = [action EXCEPT ![c] = NoAction]
    /\ wait' = [wait EXCEPT ![c] = NoWait]
    /\ calls' = [calls EXCEPT ![c] = <<>>]
    /\ started_at' = [started_at EXCEPT ![c] = 0]
    /\ issued_at' = [issued_at EXCEPT ![c] = 0]
    /\ i' = [i EXCEPT ![c] = 0]
    /\ slack' = [slack EXCEPT ![c] = 0]
    /\ polls' = [polls EXCEPT ![c] = 0]
    /\ result' = [result EXCEPT ![c] = NoResult]
    /\ now' = IF \A d \in DOMAIN pc : d = c \/ pc[d] = "idle" THEN 0 ELSE now
    /\ UNCHANGED <<provider, controller>>

\* ------------------------------------------------------------ specification

\* "custom-volume"
CustomName ==
    <<"c", "u", "s", "t", "o", "m", "-", "v", "o", "l", "u", "m", "e">>

\* A name with the prefix and no UUID after it.
BrokenName == _PREFIX \o <<"x", "y", "z">>

\* A volume of this cluster, as the provider may hold it when the
\* controller is constructed.
OwnVolume(id, droplet_ids) ==
    Volume(id, _mangle_dataset(Uuid1), volume_description(_cluster_id),
           droplet_ids, ThisRegion, 1)

Frames(callers) ==
    /\ pc = [c \in callers |-> "idle"]
    /\ op = [c \in callers |-> NoOp]
    /\ fetched = [c \in callers |-> NoVol]
    /\ vol = [c \in callers |-> NoVol]
    /\ r = [c \in callers |-> 0]
    /\ action = [c \in callers |-> NoAction]
    /\ wait = [c \in callers |-> NoWait]
    /\ calls = [c \in callers |-> <<>>]
    /\ started_at = [c \in callers |-> 0]
    /\ issued_at = [c \in callers |-> 0]
    /\ i = [c \in callers |-> 0]
    /\ slack = [c \in callers |-> 0]
    /\ polls = [c \in callers |-> 0]
    /\ result = [c \in callers |-> NoResult]

\* INSTANCE_MOCK_DATA: droplet 42 is active, droplet 32 is off.
TestDroplets ==
    [n \in NodeIds |-> Droplet(n, IF n = "42" THEN "active" ELSE "off")]

\* After __init__: no metadata, no action in flight, no operation running.
Constructed(callers) ==
    /\ actions = [a \in ActionIds |-> NoAction]
    /\ now = 0
    /\ metadata = NoMetadata
    /\ load_count = 0
    /\ Frames(callers)

\* After construction: no metadata, no operation running; the provider
\* holds no volume, or one of this cluster, attached or not.
Init ==
    /\ \E ids \in {<<>>, <<"42">>} :
          volumes \in {[id \in VolIds |-> NoVol],
                       [id \in VolIds |-> OwnVolume(id, ids)]}
    /\ Constructed(Callers)
    /\ droplets = TestDroplets

\* A caller starts an operation.
Start(c) ==
    \/ \E id \in VolIds, d \in Droplets : attach_volume(c, id, d)
    \/ \E id \in VolIds : detach_volume(c, id)
    \/ \E id \in VolIds : destroy_volume(c, id)
    \/ \E id \in VolIds, b \in BOOLEAN : get_device_path(c, id, b)
    \/ \E d \in DatasetIds, s \in Sizes : create_volume(c, d, s)
    \/ compute_instance_id(c)

Step(c) ==
    \/ attach_volume_attach(c)
    \/ detach_volume_detach(c)
    \/ destroy_volume_detach(c)
    \/ destroy_volume_destroy(c)
    \/ await_get_object(c)
    \/ \E o \in 0..MaxOversleep : await_poll(c, o)
    \/ metadata_load(c)
    \/ Return(c)

Provider ==
    \E a \in ActionIds, s \in Statuses : ProviderStep(a, s)

\* One caller: its operations never overlap.
Next ==
    \/ \E c \in Callers : Start(c)
    \/ \E c \in Callers : Step(c)
    \/ Provider

Spec == Init /\ [][Next]_vars

\* ------------------------------------- the controller on another's volume

\* A volume that follows the naming convention and carries the stamp of
\* another cluster (volume 1237 of the test data).
OtherClusterVolume(id, droplet_ids) ==
    Volume(id, _mangle_dataset(Uuid2), volume_description(<<"B">>),
           droplet_ids, ThisRegion, 1)

OwnershipInit ==
    /\ \E ids \in {<<>>, <<"42">>} :
          volumes = [id \in VolIds |-> OtherClusterVolume(id, ids)]
    /\ Constructed(Callers)
    /\ droplets = TestDroplets

OwnershipSpec == OwnershipInit /\ [][Next]_vars

\* ------------------------------------------------ the wait and start_node

NoDroplet == [none |-> TRUE]

WaitInit ==
    /\ volumes = [id \in VolIds |-> NoVol]
    /\ \E held \in [NodeIds -> DropletStatuses \cup {None}] :
          droplets = [n \in NodeIds |->
                         IF held[n] = None THEN NoDroplet
                         ELSE Droplet(n, held[n])]
    /\ Constructed(Callers)

Polling ==
    \E c \in Callers, o \in 0..MaxOversleep : await_poll(c, o)

WaitNext ==
    \/ \E c \in Callers, n \in NodeIds : start_node(c, n)
    \/ \E c \in Callers, s \in Statuses : start_node_power_on(c, s)
    \/ \E c \in Callers : list_live_nodes(c)
    \/ \E c \in Callers, a \in ActionIds \cup {0} :
          _await_action(c, HandleOf(a))
    \/ Polling
    \/ \E c \in Callers : Return(c)
    \/ Provider

\* The thread of a wait goes on running: a sleep ends, the poll is made.
WaitSpec == WaitInit /\ [][WaitNext]_vars /\ WF_vars(Polling)

\* ------------------------------------------------ the operations that wait

\* attach_volume, detach_volume, destroy_volume and start_node, with the
\* requests and the waits they are made of.
OperationsNext ==
    \/ \E c \in Callers, id \in VolIds, d \in Droplets :
          attach_volume(c, id, d)
    \/ \E c \in Callers, id \in VolIds : detach_volume(c, id)
    \/ \E c \in Callers, id \in VolIds : destroy_volume(c, id)
    \/ \E c \in Callers, n \in NodeIds : start_node(c, n)
    \/ \E c \in Callers : attach_volume_attach(c)
    \/ \E c \in Callers : detach_volume_detach(c)
    \/ \E c \in Callers : destroy_volume_detach(c)
    \/ \E c \in Callers : destroy_volume_destroy(c)
    \/ \E c \in Callers, s \in Statuses : start_node_power_on(c, s)
    \/ \E c \in Callers : await_get_object(c)
    \/ Polling
    \/ \E c \in Callers : Return(c)
    \/ Provider

OperationsSpec == Init /\ [][OperationsNext]_vars

\* ------------------------------------------------------------- the listing

ListIds == {"1234", "1235", "1236"}

\* The names and descriptions a volume of the account can have.
Names == {_mangle_dataset(Uuid1), CustomName, BrokenName}
Descriptions == {volume_description(x) : x \in ClusterIds} \cup {<<>>}

\* Volume 1238 of the test data: of this cluster, in another region.
OtherRegionVolume(id) ==
    Volume(id, _mangle_dataset(Uuid2), volume_description(_cluster_id),
           <<"16">>, "biblis-tholus", 1)

\* What the provider may hold under one id.
ProviderVolumes(id) ==
    {NoVol, OwnVolume(id, <<>>), OwnVolume(id, <<"42">>),
     OtherRegionVolume(id), OtherClusterVolume(id, <<>>),
     Volume(id, CustomName, volume_description(_cluster_id), <<>>,
            ThisRegion, 1),
     Volume(id, BrokenName, volume_description(_cluster_id), <<>>,
            ThisRegion, 1)}

ListInit ==
    /\ volumes \in [ListIds -> UNION {ProviderVolumes(id) : id \in ListIds}]
    /\ \A id \in ListIds :
          IF volumes[id].none THEN TRUE ELSE volumes[id].id = id
    /\ Constructed(Callers)
    /\ droplets = TestDroplets

ListNext ==
    \/ \E c \in Callers : list_volumes(c)
    \/ \E c \in Callers : Return(c)

ListSpec == ListInit /\ [][ListNext]_vars

\* ---------------------------------------------------------- the classifier

\* The lists of volumes handed to the classifier: up to MaxInput volumes,
\* each of a name and a description.
InputVolume(k, kind) ==
    Volume(IdOrder[k], kind[1], kind[2], <<>>, ThisRegion, 1)

ClassifierInit ==
    /\ volumes = [id \in VolIds |-> NoVol]
    /\ Constructed(Callers)
    /\ droplets = TestDroplets

ClassifierNext ==
    \/ \E c \in Callers, n \in 0..MaxInput :
          \E kinds \in [1..n -> Names \X Descriptions] :
             categorize(c, [k \in 1..n |-> InputVolume(k, kinds[k])])
    \/ \E c \in Callers : Return(c)

ClassifierSpec == ClassifierInit /\ [][ClassifierNext]_vars

\* ------------------------------------------- first use by several callers

ConcurrentCallers == {"c1", "c2", "c3", "c4"}

ConcurrentInit ==
    /\ volumes = [id \in VolIds |-> NoVol]
    /\ Constructed(ConcurrentCallers)
    /\ droplets = TestDroplets

\* The calls of the callers interleave at their requests.
ConcurrentNext ==
    \/ \E c \in ConcurrentCallers : compute_instance_id(c)
    \/ \E c \in ConcurrentCallers : metadata_load(c)
    \/ \E c \in ConcurrentCallers : Return(c)

ConcurrentSpec == ConcurrentInit /\ [][ConcurrentNext]_vars

\* ------------------------------------------------------------- the creation

\* A UUID of two alternating digits.
UuidOf(a, b) == [k \in 1..32 |-> IF k % 2 = 1 THEN a ELSE b]

\* The dataset ids create_volume is called with.
InputUuids == DatasetIds \cup {UuidOf(a, b) : a \in {0, 9, 10, 15}, b \in {0, 15}}

\* The sizes create_volume is called with: whole GiB, and byte counts below,
\* between and above them.
InputSizes ==
    {[gib |-> g, rest |-> x] :
        g \in 0..MaxGib,
        x \in {0, 1, 536870912, _ONE_GIB - 1, _ONE_GIB, 1610612736}}

CreateInit ==
    /\ volumes = [id \in VolIds |-> NoVol]
    /\ Constructed(Callers)
    /\ droplets = TestDroplets

\* Volumes are created, and destroyed again.
CreateNext ==
    \/ \E c \in Callers, d \in InputUuids, s \in InputSizes :
          create_volume(c, d, s)
    \/ \E c \in Callers, id \in VolIds : destroy_volume(c, id)
    \/ \E c \in Callers : destroy_volume_destroy(c)
    \/ \E c \in Callers : Return(c)

CreateSpec == CreateInit /\ [][CreateNext]_vars

\* ------------------------------------------------------------------ the codec

\* The dataset ids that are mangled: those of the test data and every UUID
\* of two alternating digits.
CodecUuids ==
    DatasetIds \cup {UuidOf(a, b) : a \in 0..15, b \in 0..15}

\* The names that are unmangled without having been mangled: no name, the
\* custom name of the test data, a UUID without the prefix, the prefix in
\* capitals, and names with the prefix: with a hyphenated UUID, with no UUID.
CodecNames ==
    {<<>>, CustomName, UuidHex(Uuid1),
     <<"F", "L", "O", "C", "K", "E", "R", "-", "V", "1", "-">> \o UuidHex(Uuid1),
     _mangle_dataset_hyphenated(Uuid2), BrokenName, _PREFIX}

\* test_volume_name_format, test_volume_name_rountrip:
\* _unmangle_dataset(_mangle_dataset(dataset_id))
mangle_unmangle(c, dataset_id) ==
    LET vol_name == _mangle_dataset(dataset_id)
        back == _unmangle_dataset(vol_name)
    IN  /\ pc[c] = "idle"
        /\ op' = [op EXCEPT ![c] =
              [name |-> "_mangle_dataset", blockdevice_id |-> None,
               attach_to |-> None, dataset_id |-> dataset_id]]
        /\ Finish(c, IF back.raised THEN Raised("ValueError", None, None)
                     ELSE Returned([none |-> FALSE, name |-> vol_name,
                                    dataset_id |-> back.value]))
        /\ UNCHANGED <<provider, now, controller, fetched, vol, r, waiter,
                       calls, issued_at>>

\* test_volume_name_unrecognized: _unmangle_dataset(vol_name)
unmangle(c, vol_name) ==
    LET dataset == _unmangle_dataset(vol_name)
    IN  /\ pc[c] = "idle"
        /\ op' = [op EXCEPT ![c] =
              [name |-> "_unmangle_dataset", blockdevice_id |-> None,
               attach_to |-> None, vol_name |-> vol_name]]
        /\ Finish(c, IF dataset.raised THEN Raised("ValueError", None, None)
                     ELSE Returned([none |-> FALSE,
                                    dataset_id |-> dataset.value]))
        /\ UNCHANGED <<provider, now, controller, fetched, vol, r, waiter,
                       calls, issued_at>>

CodecInit ==
    /\ volumes = [id \in VolIds |-> NoVol]
    /\ Constructed(Callers)
    /\ droplets = TestDroplets

CodecNext ==
    \/ \E c \in Callers, x \in CodecUuids : mangle_unmangle(c, x)
    \/ \E c \in Callers, n \in CodecNames : unmangle(c, n)
    \/ \E c \in Callers : Return(c)

CodecSpec == CodecInit /\ [][CodecNext]_vars

\* ------------------------------------------- attach_volume by two callers

RaceCallers == {"c1", "c2"}

\* The provider holds one volume of this cluster, attached to no droplet.
RaceInit ==
    /\ volumes = [id \in VolIds |-> OwnVolume(id, <<>>)]
    /\ Constructed(RaceCallers)
    /\ droplets = TestDroplets

\* Action.get_object of a wait, while the behaviour is followed.
await_get_object_in_time(c) ==
    /\ now < MaxRaceTime
    /\ await_get_object(c)

\* The calls of the callers interleave at their requests to the provider:
\* get_volume, vol.attach, Action.get_object.  The behaviours are followed
\* up to the first status of each action and up to MaxRaceTime.
RaceNext ==
    \/ \E c \in RaceCallers, id \in VolIds, d \in Droplets :
          attach_volume(c, id, d)
    \/ \E c \in RaceCallers : attach_volume_attach(c)
    \/ \E c \in RaceCallers : await_get_object_in_time(c)
    \/ \E c \in RaceCallers : Return(c)
    \/ Provider

RaceSpec == RaceInit /\ [][RaceNext]_vars

\* ------------------------------------------- the controller of another cluster

\* The cluster id of a second controller on the same account.
PeerClusterId == <<"B">>

\* _categorize_do_volume of a controller constructed with cluster_id
categorize_do_volume_of(cluster_id, result_dict, v) ==
    IF ~StartsWith(text_type(v.name), _PREFIX)
    THEN [result_dict EXCEPT !.ignored = Append(@, v)]
    ELSE IF text_type(v.description) # volume_description(cluster_id)
    THEN [result_dict EXCEPT !.wrong_cluster = Append(@, v)]
    ELSE [result_dict EXCEPT !.okay = Append(@, v)]

\* reduce(self._categorize_do_volume, vols, result_dict) of that controller
RECURSIVE reduce_categorize_of(_, _, _)
reduce_categorize_of(cluster_id, vols, result_dict) ==
    IF vols = <<>> THEN result_dict
    ELSE reduce_categorize_of(cluster_id, Tail(vols),
            categorize_do_volume_of(cluster_id, result_dict, Head(vols)))

\* What list_volumes of that controller makes of the provider's list.
list_volumes_result_of(cluster_id, vols) ==
    LET res == reduce_categorize_of(cluster_id, vols, NoCategories)
        listed == map_to_block_device_volume(res["okay"])
    IN  IF \E k \in 1..Len(listed) : listed[k].raised
        THEN Raised("ValueError", None, None)
        ELSE Returned([none |-> FALSE, volumes |-> listed])

\* create_volume of the controller of the other cluster, which runs on a
\* droplet of the same region and holds its own metadata.
peer_create_volume(c, dataset_id, size) ==
    /\ pc[c] = "idle"
    /\ FreeVolIds # {}
    /\ LET id == CHOOSE x \in FreeVolIds : TRUE
           v == Volume(id, _mangle_dataset(dataset_id),
                       volume_description(PeerClusterId), <<>>, ThisRegion,
                       to_GiB_int(size))
       IN  /\ op' = [op EXCEPT ![c] =
                 [name |-> "peer:create_volume", blockdevice_id |-> None,
                  attach_to |-> None, dataset_id |-> dataset_id,
                  size |-> size]]
           /\ volumes' = [volumes EXCEPT ![id] = v]
           /\ vol' = [vol EXCEPT ![c] = v]
           /\ calls' = [calls EXCEPT ![c] = Append(@, Call("create", v, None))]
           /\ Finish(c, Converted(v))
    /\ UNCHANGED <<actions, droplets, now, controller, fetched, r, waiter,
                   issued_at>>

\* list_volumes of the controller of the other cluster
peer_list_volumes(c) ==
    /\ pc[c] = "idle"
    /\ op' = [op EXCEPT ![c] =
          [name |-> "peer:list_volumes", blockdevice_id |-> None,
           attach_to |-> None]]
    /\ calls' = [calls EXCEPT ![c] =
          Append(@, [call |-> "get_all_volumes", volume |-> None,
                     droplet |-> None, region |-> None])]
    /\ Finish(c, list_volumes_result_of(PeerClusterId,
                                        Manager_get_all_volumes))
    /\ UNCHANGED <<provider, now, controller, fetched, vol, r, waiter,
                   issued_at>>

\* The threads of this controller and those of the other cluster's; each
\* makes one call.
OwnCallers == {"c1", "c2"}
PeerCallers == {"p1", "p2"}

ClustersInit ==
    /\ volumes = [id \in ListIds |-> NoVol]
    /\ Constructed(OwnCallers \cup PeerCallers)
    /\ droplets = TestDroplets

ClustersNext ==
    \/ \E c \in OwnCallers, d \in DatasetIds, s \in Sizes :
          create_volume(c, d, s)
    \/ \E c \in OwnCallers : list_volumes(c)
    \/ \E c \in PeerCallers, d \in DatasetIds, s \in Sizes :
          peer_create_volume(c, d, s)
    \/ \E c \in PeerCallers : peer_list_volumes(c)

ClustersSpec == ClustersInit /\ [][ClustersNext]_vars

\* ------------------------------------------------- the volume disappearing

\* The volume is destroyed by someone else on the account while an
\* operation runs.
destroyed_elsewhere(id) ==
    /\ ~volumes[id].none
    /\ volumes' = [volumes EXCEPT ![id] = NoVol]
    /\ actions' = Destroyed(id)
    /\ UNCHANGED <<droplets, now, controller, pc, op, fetched, vol, r,
                   waiter, calls, issued_at, result>>

\* except NotFoundError as _: raise UnknownVolume(blockdevice_id), with the
\* exception passed on as it is.
NotFound_passed_on(blockdevice_id) ==
    Raised("NotFoundError", blockdevice_id, None)

\* except NotFoundError as _: raise UnknownVolume(blockdevice_id)
NotFound(blockdevice_id) == Raised("UnknownVolume", blockdevice_id, None)

\* Action.get_object of _await_action_id answered with NotFoundError, as
\* the provider may once the volume is gone: the exception leaves
\* _await_action_id and reaches the except clause of the operation.
await_get_object_not_found(c) ==
    /\ pc[c] = "await:get_object"
    /\ volumes[vol[c].id].none
    /\ now' = now + GetObjectLatency
    /\ Finish(c, NotFound(op[c].blockdevice_id))
    /\ actions' = Release(r[c])
    /\ UNCHANGED <<volumes, droplets, controller, op, fetched, vol, r,
                   waiter, calls, issued_at>>

\* load_directly of a poll answered with NotFoundError: the exception
\* leaves s.run() before i += 1.
await_poll_not_found(c) ==
    /\ pc[c] = "await:loop"
    /\ volumes[vol[c].id].none
    /\ now' = now + Delta(started_at[c], now)
    /\ polls' = [polls EXCEPT ![c] = @ + 1]
    /\ Finish(c, NotFound(op[c].blockdevice_id))
    /\ actions' = Release(action[c].id)
    /\ UNCHANGED <<volumes, droplets, controller, op, fetched, vol, r,
                   action, wait, started_at, i, slack, calls, issued_at>>

NotFoundNext ==
    \/ \E c \in Callers, id \in VolIds, d \in Droplets :
          attach_volume(c, id, d)
    \/ \E c \in Callers, id \in VolIds : detach_volume(c, id)
    \/ \E c \in Callers, id \in VolIds : destroy_volume(c, id)
    \/ \E c \in Callers : attach_volume_attach(c)
    \/ \E c \in Callers : detach_volume_detach(c)
    \/ \E c \in Callers : destroy_volume_detach(c)
    \/ \E c \in Callers : destroy_volume_destroy(c)
    \/ \E c \in Callers : await_get_object(c)
    \/ \E c \in Callers : await_get_object_not_found(c)
    \/ Polling
    \/ \E c \in Callers : await_poll_not_found(c)
    \/ \E c \in Callers : Return(c)
    \/ Provider
    \/ \E id \in VolIds : destroyed_elsewhere(id)

NotFoundSpec == Init /\ [][NotFoundNext]_vars

\* ------------------------------------------------------------------ claims

Done(c) == pc[c] = "done"

Running(c, name) == op[c].name = name

HasAttachment(v) == ~v.none /\ v.droplet_ids # <<>>

NoAttachment(v) == ~v.none /\ v.droplet_ids = <<>>

\* How many of the provider mutations of c's operation are of this kind.
Issued(c, kind) ==
    Cardinality({k \in 1..Len(calls[c]) : calls[c][k].call = kind})

Deadline == _timeout * TicksPerUnit

\* C1: attach_volume on a volume fetched with a non-empty attachment list
\* ends at once in AlreadyAttachedVolume for that id, whatever droplet is
\* asked for, and no provider mutation is issued.
C1_AttachAttachedRefused ==
    \A c \in DOMAIN pc :
        Running(c, "attach_volume") /\ HasAttachment(fetched[c])
        => /\ Done(c)
           /\ result[c].outcome = "AlreadyAttachedVolume"
           /\ result[c].message = op[c].blockdevice_id
           /\ calls[c] = <<>>

C1_Witness ==
    \E c \in DOMAIN pc :
        /\ Done(c)
        /\ Running(c, "attach_volume")
        /\ HasAttachment(fetched[c])
        /\ fetched[c].droplet_ids[1] = "42"
        /\ op[c].attach_to = "16"
        /\ result[c].outcome = "AlreadyAttachedVolume"

\* C2: detach_volume on a volume fetched with an empty attachment list ends
\* at once in UnattachedVolume for that id, and no provider mutation is
\* issued.
C2_DetachUnattachedRefused ==
    \A c \in DOMAIN pc :
        Running(c, "detach_volume") /\ NoAttachment(fetched[c])
        => /\ Done(c)
           /\ result[c].outcome = "UnattachedVolume"
           /\ result[c].message = op[c].blockdevice_id
           /\ calls[c] = <<>>

C2_Witness ==
    \E c \in DOMAIN pc :
        /\ Done(c)
        /\ Running(c, "detach_volume")
        /\ NoAttachment(fetched[c])
        /\ result[c].outcome = "UnattachedVolume"

\* C3: when attach_volume(id, node) on an unattached volume has seen its
\* attach action completed, the record it returns has attached_to = node.
C3_AttachReturnsAttachment ==
    \A c \in DOMAIN pc :
        /\ Done(c)
        /\ Running(c, "attach_volume")
        /\ NoAttachment(fetched[c])
        /\ wait[c].ended
        /\ action[c].status = "completed"
        => /\ result[c].outcome = "returned"
           /\ result[c].value.attached_to = op[c].attach_to

\* C4: when detach_volume(id) on an attached volume has seen its detach
\* action completed, the record it returns has no attachment.
C4_DetachReturnsNoAttachment ==
    \A c \in DOMAIN pc :
        /\ Done(c)
        /\ Running(c, "detach_volume")
        /\ HasAttachment(fetched[c])
        /\ wait[c].ended
        /\ action[c].status = "completed"
        => /\ result[c].outcome = "returned"
           /\ result[c].value.attached_to = None

\* The droplets a volume is attached to or has an attach in flight to.
Targets(id) ==
    {volumes[id].droplet_ids[k] : k \in 1..Len(volumes[id].droplet_ids)}
    \cup {actions[a].droplet : a \in {b \in DOMAIN actions :
             /\ ~actions[b].none
             /\ actions[b].type = "attach"
             /\ actions[b].volume = id
             /\ actions[b].status = "in-progress"}}

\* C5: whatever operations have run one after the other, timed-out attaches
\* included, every volume of the provider has at most one attachment
\* target, attached or with its attach in flight.
C5_SingleAttachmentTarget ==
    \A id \in DOMAIN volumes :
        ~volumes[id].none => Cardinality(Targets(id)) <= 1

\* C6: destroy_volume issues a detach exactly if the fetched volume has an
\* attachment; it is at vol.destroy() for an attached volume only once the
\* detach action was seen completed, after the detach; destroy is issued at
\* most once, and once whenever destroy_volume got that far or returned.
C6_DestroyDetachesFirst ==
    \A c \in DOMAIN pc :
        Running(c, "destroy_volume") /\ ~fetched[c].none
        => /\ Issued(c, "detach") > 0 => HasAttachment(fetched[c])
           /\ Issued(c, "destroy") <= 1
           /\ Issued(c, "attach") = 0
           /\ pc[c] = "destroy_volume:destroy" \/ Done(c)
              => Issued(c, "detach")
                   = IF HasAttachment(fetched[c]) THEN 1 ELSE 0
           /\ (pc[c] = "destroy_volume:destroy" \/ Issued(c, "destroy") = 1)
              /\ HasAttachment(fetched[c])
              => /\ wait[c].ended
                 /\ action[c].status = "completed"
                 /\ calls[c][1].call = "detach"
           /\ Issued(c, "destroy") = 1
              => calls[c][Len(calls[c])].call = "destroy"
           /\ Done(c) /\ result[c].outcome = "returned"
              => Issued(c, "destroy") = 1

C6_Witness ==
    \E c \in DOMAIN pc :
        /\ Done(c)
        /\ Running(c, "destroy_volume")
        /\ HasAttachment(fetched[c])
        /\ result[c].outcome = "returned"
        /\ i[c] > 0
        /\ Len(calls[c]) = 2

\* C7: if the detach of destroy_volume is not seen completed (the wait
\* timed out, or the action ended in another status), destroy_volume fails
\* with the DOException of the wait and vol.destroy() is not called.
C7_DestroyBlockedByDetach ==
    \A c \in DOMAIN pc :
        /\ Running(c, "destroy_volume")
        /\ HasAttachment(fetched[c])
        /\ action[c] # NoAction
        /\ action[c].status # "completed"
        /\ pc[c] # "await:loop"
        => /\ Done(c)
           /\ result[c].outcome = "DOException"
           /\ Issued(c, "destroy") = 0

C7_Witness ==
    \E c \in DOMAIN pc :
        /\ Done(c)
        /\ Running(c, "destroy_volume")
        /\ HasAttachment(fetched[c])
        /\ action[c].status = "in-progress"
        /\ result[c].message = "Wait timeout"
        /\ Issued(c, "destroy") = 0

\* The operations that begin with get_volume.
Fetching ==
    {"destroy_volume", "attach_volume", "detach_volume", "get_device_path"}

\* C8: destroy_volume, attach_volume, detach_volume and get_device_path on
\* an id the provider does not know at get_volume end at once in
\* UnknownVolume for that id, without a provider mutation.
C8_UnknownVolume ==
    \A c \in DOMAIN pc :
        op[c].name \in Fetching /\ fetched[c].none
        => /\ Done(c)
           /\ result[c].outcome = "UnknownVolume"
           /\ result[c].message = op[c].blockdevice_id
           /\ calls[c] = <<>>

C8_Witness ==
    \E c \in DOMAIN pc :
        /\ Done(c)
        /\ Running(c, "get_device_path")
        /\ fetched[c].none
        /\ result[c].outcome = "UnknownVolume"

TimedOut(c) ==
    /\ Done(c)
    /\ result[c].outcome = "DOException"
    /\ result[c].message = "Wait timeout"

\* C9: the wait ends in the timeout exactly when the last status it saw is
\* in-progress and the time since started_at is at least the deadline; it
\* goes on polling while the status is in-progress and less time has passed.
C9_TimeoutAtDeadline ==
    \A c \in DOMAIN pc :
        /\ wait[c].ended
           => (TimedOut(c)
               <=> /\ action[c].status = "in-progress"
                   /\ wait[c].at - started_at[c] >= Deadline)
        /\ TimedOut(c) => wait[c].ended
        /\ action[c] # NoAction /\ action[c].status = "in-progress"
           /\ now - started_at[c] < Deadline
           => pc[c] = "await:loop"

C9_Witness ==
    \E c \in DOMAIN pc :
        /\ TimedOut(c)
        /\ wait[c].at - started_at[c] > Deadline
        /\ wait[c].at - issued_at[c] > wait[c].at - started_at[c]

\* C10: a wait that saw a status other than in-progress and completed ends
\* in DOException "Action failed" carrying that status, which is not the
\* timeout.
C10_ActionFailed ==
    \A c \in DOMAIN pc :
        /\ action[c] # NoAction
        /\ action[c].status \notin {"in-progress", "completed"}
        => /\ Done(c)
           /\ wait[c].ended
           /\ result[c].outcome = "DOException"
           /\ result[c].message = "Action failed ({r})"
           /\ result[c].status = action[c].status
           /\ <<result[c].message, result[c].status>> # <<"Wait timeout", None>>

C10_Witness ==
    \E c \in DOMAIN pc :
        /\ Done(c)
        /\ action[c] # NoAction
        /\ action[c].status = "errored"
        /\ result[c].status = "errored"
        /\ i[c] > 0

\* C11: a wait that saw its action completed reports success (it returns
\* True and raises nothing), and the iteration count i it reports is the
\* number of status re-fetches (calls of load_directly) it made; i is that
\* number all through the wait.
C11_IterationsArePolls ==
    \A c \in DOMAIN pc :
        /\ i[c] = polls[c]
        /\ wait[c].ended /\ action[c] # NoAction
           /\ action[c].status = "completed"
           => /\ wait[c].value = "True"
              /\ Done(c)
              /\ result[c].outcome = "returned"

\* in-progress at the start, in-progress at the first poll, completed at
\* the second
C11_Witness ==
    \E c \in DOMAIN pc :
        /\ Done(c)
        /\ wait[c].ended
        /\ wait[c].value = "True"
        /\ action[c].status = "completed"
        /\ polls[c] = 2
        /\ i[c] = 2

\* C12: _await_action called without an action returns at once, False:
\* no poll, no sleep (the clock is where it was when the wait began), no
\* exception.
C12_NoHandleReturnsFalse ==
    \A c \in DOMAIN pc :
        Running(c, "_await_action") /\ action[c] = NoAction
        => /\ Done(c)
           /\ result[c].outcome = "returned"
           /\ wait[c].ended
           /\ wait[c].value = "False"
           /\ polls[c] = 0
           /\ i[c] = 0
           /\ wait[c].at = started_at[c]
           /\ now = started_at[c]

C12_Witness ==
    \E c \in DOMAIN pc :
        /\ Done(c)
        /\ Running(c, "_await_action")
        /\ action[c] = NoAction
        /\ wait[c].value = "False"
        /\ result[c].outcome = "returned"

\* C13: the polls of a wait are made one after the other (each is over
\* before the next sleep begins), and every poll comes at least the poll
\* interval after the one before it, or after the start of the wait for
\* the first; the clock moves only in the sleeps of the wait, so now is
\* the time of the fetch before.
C13_PollInterval ==
    [][\A c \in Callers :
          polls'[c] = polls[c] + 1 => now' - now >= _poll * TicksPerUnit]_vars

\* ceil(deadline / poll interval)
MaxPolls == (_timeout + _poll - 1) \div _poll

\* C14: whatever statuses the provider reports, a wait makes at most
\* ceil(deadline / poll interval) polls, and a wait that is in its loop
\* leaves it (it returns or raises).
C14_WaitTerminates ==
    /\ [](\A c \in Callers : polls[c] <= MaxPolls)
    /\ \A c \in Callers : (pc[c] = "await:loop") ~> (pc[c] # "await:loop")

C14_Witness ==
    \E c \in DOMAIN pc :
        /\ TimedOut(c)
        /\ polls[c] = MaxPolls

\* The provider mutations of a volume.
Mutations == {"attach", "detach", "destroy"}

HasPrefix(v) ==
    /\ Len(v.name) >= Len(_PREFIX)
    /\ \A k \in 1..Len(_PREFIX) : v.name[k] = _PREFIX[k]

Stamped(v) == v.description = DescriptionHead \o _cluster_id

\* C15: whatever id destroy_volume, attach_volume or detach_volume is
\* called with, no attach, detach or destroy is issued for a volume that
\* has the prefix and the stamp of another cluster.
C15_WrongClusterUntouched ==
    \A c \in DOMAIN pc :
        /\ op[c].name \in {"destroy_volume", "attach_volume", "detach_volume"}
        /\ ~fetched[c].none
        /\ HasPrefix(fetched[c])
        /\ ~Stamped(fetched[c])
        => \A k \in 1..Len(calls[c]) : calls[c][k].call \notin Mutations

\* How often v is in the list s.
Count(s, v) == Cardinality({k \in 1..Len(s) : s[k] = v})

\* C16: the classifier puts every volume of its input in exactly one list:
\* ignored iff the name has not the prefix, whatever the description;
\* wrong_cluster iff it has the prefix and the description is not this
\* cluster's stamp; okay iff it has the prefix and the stamp.  The lists
\* hold nothing else.
C16_Classified ==
    \A c \in DOMAIN pc :
        Done(c) /\ Running(c, "_categorize_do_volume")
        => LET vols == op[c].vols
               res == result[c].value.res
           IN  /\ \A k \in 1..Len(vols) :
                     LET v == vols[k]
                     IN  /\ Count(res.ignored, v)
                              = IF ~HasPrefix(v) THEN 1 ELSE 0
                         /\ Count(res.wrong_cluster, v)
                              = IF HasPrefix(v) /\ ~Stamped(v) THEN 1 ELSE 0
                         /\ Count(res.okay, v)
                              = IF HasPrefix(v) /\ Stamped(v) THEN 1 ELSE 0
               /\ Len(res.ignored) + Len(res.wrong_cluster) + Len(res.okay)
                    = Len(vols)

\* a foreign volume with another description, a foreign one with this
\* cluster's stamp, and one of another cluster
C16_Witness ==
    \E c \in DOMAIN pc :
        /\ Done(c)
        /\ Running(c, "_categorize_do_volume")
        /\ Len(op[c].vols) = 3
        /\ Len(result[c].value.res.ignored) = 2
        /\ Len(result[c].value.res.wrong_cluster) = 1
        /\ \E k \in 1..2 :
              /\ ~Stamped(result[c].value.res.ignored[k])
              /\ Stamped(result[c].value.res.ignored[3 - k])

Owned(v) == ~v.none /\ HasPrefix(v) /\ Stamped(v)

\* C17: list_volumes returns, after one get_all_volumes, one record for
\* every volume of the provider that has the prefix and this cluster's
\* stamp, whatever its region, and no other record; each record has the
\* id, the size, the first attachment target (or none) and the dataset id
\* whose mangling is the name of its volume.
C17_ListReturnsOwned ==
    \A c \in DOMAIN pc :
        Done(c) /\ Running(c, "list_volumes")
        => /\ Issued(c, "get_all_volumes") = 1
           /\ Len(calls[c]) = 1
           /\ result[c].outcome = "returned"
           /\ LET recs == result[c].value.volumes
              IN  /\ \A id \in DOMAIN volumes :
                        Cardinality({k \in 1..Len(recs) :
                                       recs[k].blockdevice_id = id})
                          = IF Owned(volumes[id]) THEN 1 ELSE 0
                  /\ \A k \in 1..Len(recs) :
                        LET v == volumes[recs[k].blockdevice_id]
                        IN  /\ recs[k].size_gib = v.size_gigabytes
                            /\ recs[k].attached_to
                                 = IF v.droplet_ids = <<>> THEN None
                                   ELSE v.droplet_ids[1]
                            /\ _PREFIX \o UuidHex(recs[k].dataset_id)
                                 = v.name

\* C18: in any sequence of compute_instance_id and create_volume calls,
\* Metadata.load() has run once as soon as one of them has returned, and
\* never runs again: the number of loads is 0 while no metadata is held and
\* 1 from then on.
C18_MetadataLoadedOnce ==
    /\ load_count = IF metadata = NoMetadata THEN 0 ELSE 1
    /\ \A c \in DOMAIN pc :
          Done(c) /\ op[c].name \in {"compute_instance_id", "create_volume"}
          => /\ load_count = 1
             /\ metadata.droplet_id = ThisDroplet

\* compute_instance_id returning the cached id after create_volume has
\* loaded the metadata
C18_Witness ==
    \E c \in DOMAIN pc :
        /\ Done(c)
        /\ Running(c, "compute_instance_id")
        /\ result[c].value.text = ThisDroplet
        /\ load_count = 1
        /\ \E id \in DOMAIN volumes :
              /\ ~volumes[id].none
              /\ volumes[id].name = _PREFIX \o UuidHex(Uuid2)

\* C19: when several callers use the metadata for the first time at once,
\* Metadata.load() runs at most once.
C19_ConcurrentLoadOnce == load_count <= 1

\* C20: start_node on an active droplet issues no power-on and returns; on
\* any other droplet it issues one power-on, returns only after the
\* action was seen completed, and otherwise raises the timeout (action
\* still in progress at the deadline) or the action failure (any other
\* status).
C20_StartNode ==
    \A c \in DOMAIN pc :
        Running(c, "start_node") /\ ~fetched[c].none
        => /\ Issued(c, "power_on") = Len(calls[c])
           /\ Issued(c, "power_on") <= 1
           /\ fetched[c].status = "active"
              => /\ Done(c)
                 /\ result[c].outcome = "returned"
                 /\ calls[c] = <<>>
           /\ fetched[c].status # "active" /\ Done(c)
              => /\ Issued(c, "power_on") = 1
                 /\ wait[c].ended
                 /\ result[c].outcome \in {"returned", "DOException"}
                 /\ result[c].outcome = "returned"
                    <=> action[c].status = "completed"
                 /\ action[c].status = "in-progress"
                    => /\ result[c].message = "Wait timeout"
                       /\ wait[c].at - started_at[c] >= Deadline
                 /\ action[c].status \notin {"in-progress", "completed"}
                    => /\ result[c].message = "Action failed ({r})"
                       /\ result[c].status = action[c].status

C20_Witness ==
    \E c \in DOMAIN pc :
        /\ Done(c)
        /\ Running(c, "start_node")
        /\ ~fetched[c].none
        /\ fetched[c].status = "off"
        /\ result[c].outcome = "returned"
        /\ polls[c] > 0
        /\ droplets[fetched[c].id].status = "active"

C22_CreateVolume ==
    \A c \in DOMAIN pc :
        Running(c, "create_volume")
        => /\ Done(c)
           /\ Len(calls[c]) = 1
           /\ calls[c][1].call = "create"
           /\ calls[c][1].volume = vol[c].id
           /\ calls[c][1].region = ThisRegion
           /\ vol[c].name = _PREFIX \o UuidHex(op[c].dataset_id)
           /\ vol[c].description = DescriptionHead \o _cluster_id
           /\ vol[c].region.slug = ThisRegion
           /\ volumes[vol[c].id] = vol[c]
           /\ result[c].outcome = "returned"
           /\ result[c].value.blockdevice_id = vol[c].id
           /\ result[c].value.dataset_id = op[c].dataset_id
           /\ result[c].value.attached_to = None

\* the first create_volume of the controller, which loads the metadata
\* for the region
C22_Witness ==
    \E c \in DOMAIN pc :
        /\ Done(c)
        /\ Running(c, "create_volume")
        /\ op[c].dataset_id = UuidOf(10, 15)
        /\ result[c].outcome = "returned"
        /\ result[c].value.dataset_id = UuidOf(10, 15)
        /\ volumes[result[c].value.blockdevice_id].region.slug = ThisRegion
        /\ load_count = 1

\* C25: the size create_volume passes to the provider is the whole GiB in
\* the byte count asked for, the rest dropped (0 for less than 1 GiB); the
\* size of the record returned is that many allocation units of
\* 1073741824 bytes, hence not more than what was asked for.
C25_SizeTruncated ==
    /\ allocation_unit = 1073741824
    /\ \A c \in DOMAIN pc :
          Done(c) /\ Running(c, "create_volume")
          => LET size == op[c].size
                 g == vol[c].size_gigabytes
                 q == g - size.gib
             IN  /\ q \in 0..1
                 /\ size.rest - q * allocation_unit >= 0
                 /\ size.rest - q * allocation_unit < allocation_unit
                 /\ size.gib = 0 /\ size.rest < allocation_unit => g = 0
                 /\ volumes[vol[c].id].size_gigabytes = g
                 /\ result[c].value.size_gib = g

\* half a GiB asked for: 0 GiB created
C25_Witness ==
    \E c \in DOMAIN pc :
        /\ Done(c)
        /\ Running(c, "create_volume")
        /\ op[c].size = [gib |-> 0, rest |-> 536870912]
        /\ volumes[vol[c].id].size_gigabytes = 0
        /\ result[c].value.size_gib = 0

\* C23: for every dataset id x, _mangle_dataset(x) is "flocker-v1-"
\* followed by the 32 hex digits of x and no hyphen, and _unmangle_dataset
\* of it is x; _unmangle_dataset of a name that does not start with the
\* prefix is None and raises nothing.
C23_RoundTrip ==
    \A c \in DOMAIN pc :
        /\ Done(c) /\ Running(c, "_mangle_dataset")
           => /\ result[c].outcome = "returned"
              /\ LET name == result[c].value.name
                     x == op[c].dataset_id
                 IN  /\ Len(name) = Len(_PREFIX) + 32
                     /\ \A k \in 1..Len(_PREFIX) : name[k] = _PREFIX[k]
                     /\ \A k \in 1..32 :
                           name[Len(_PREFIX) + k] = HexDigits[x[k] + 1]
                     /\ result[c].value.dataset_id = x
        /\ Done(c) /\ Running(c, "_unmangle_dataset")
           /\ ~HasPrefix([name |-> op[c].vol_name])
           => /\ result[c].outcome = "returned"
              /\ result[c].value.dataset_id = NoDataset

\* the UUID afafafaf-... mangled and back
C23_Witness ==
    \E c \in DOMAIN pc :
        /\ Done(c)
        /\ Running(c, "_mangle_dataset")
        /\ op[c].dataset_id = UuidOf(10, 15)
        /\ result[c].value.dataset_id = UuidOf(10, 15)
        /\ result[c].value.name[Len(_PREFIX) + 1] = "a"
        /\ result[c].value.name[Len(_PREFIX) + 32] = "f"

Waiting == {"attach_volume", "detach_volume", "destroy_volume", "start_node"}

\* C24: when the wait inside attach_volume, detach_volume, destroy_volume or
\* start_node ends with its action still in progress at the deadline, the
\* operation has raised DOException "Wait timeout" to its caller: it has
\* not returned, and destroy_volume has not gone on to destroy the volume.
C24_TimeoutPropagates ==
    \A c \in DOMAIN pc :
        /\ op[c].name \in Waiting
        /\ wait[c].ended
        /\ action[c].status = "in-progress"
        => /\ wait[c].at - started_at[c] >= Deadline
           /\ Done(c)
           /\ result[c].outcome = "DOException"
           /\ result[c].message = "Wait timeout"
           /\ Issued(c, "destroy") = 0
           /\ Len(calls[c]) = 1

\* start_node of a droplet whose power-on is still in progress after 60
\* units of time
C24_Witness ==
    \E c \in DOMAIN pc :
        /\ Running(c, "start_node")
        /\ wait[c].ended
        /\ action[c].status = "in-progress"
        /\ polls[c] >= MaxPolls
        /\ TimedOut(c)

\* C26: list_live_nodes returns the id of every droplet the provider lists
\* with the status 'active', once, and no other id.
C26_LiveNodes ==
    \A c \in DOMAIN pc :
        Running(c, "list_live_nodes")
        => /\ Done(c)
           /\ result[c].outcome = "returned"
           /\ LET all_droplets == op[c].all_droplets
                  nodes == result[c].value.nodes
              IN  /\ \A k \in 1..Len(all_droplets) :
                        Cardinality({j \in 1..Len(nodes) :
                                        nodes[j] = all_droplets[k].id})
                          = IF all_droplets[k].status = "active" THEN 1
                            ELSE 0
                  /\ \A j \in 1..Len(nodes) :
                        \E k \in 1..Len(all_droplets) :
                           all_droplets[k].id = nodes[j]

\* one droplet active, one off: the active one is returned
C26_Witness ==
    \E c \in DOMAIN pc :
        /\ Done(c)
        /\ Running(c, "list_live_nodes")
        /\ Len(op[c].all_droplets) = 2
        /\ op[c].all_droplets[1].status = "off"
        /\ op[c].all_droplets[2].status = "active"
        /\ result[c].value.nodes = <<"32">>

\* C27: of two attach_volume calls for one volume that run at the same
\* time, at most one issues vol.attach.
C27_OneAttachIssued ==
    \A c \in DOMAIN pc : \A d \in DOMAIN pc :
        /\ c # d
        /\ Running(c, "attach_volume")
        /\ Running(d, "attach_volume")
        /\ op[c].blockdevice_id = op[d].blockdevice_id
        => ~(Issued(c, "attach") > 0 /\ Issued(d, "attach") > 0)

\* C28: a wait whose last poll read 'completed' succeeds, also when that
\* poll was made at or after the deadline: the status is tested before the
\* time, and the timeout is never raised for an action last seen completed.
C28_SuccessFirst ==
    \A c \in DOMAIN pc :
        /\ wait[c].ended
        /\ action[c] # NoAction
        /\ action[c].status = "completed"
        => /\ wait[c].value = "True"
           /\ wait[c].message # "Wait timeout"
           /\ ~TimedOut(c)
           /\ result[c].outcome # "DOException"

\* completed read by the poll made at the deadline
C28_Witness ==
    \E c \in DOMAIN pc :
        /\ Done(c)
        /\ wait[c].ended
        /\ action[c] # NoAction
        /\ action[c].status = "completed"
        /\ polls[c] > 0
        /\ wait[c].at - started_at[c] >= Deadline
        /\ wait[c].value = "True"
        /\ result[c].outcome = "returned"

C30_ReturnsOnlySuccess ==
    \A c \in DOMAIN pc :
        action[c] # NoAction
        => /\ wait[c].ended
              => /\ wait[c].value \in {"True", None}
                 /\ wait[c].value = "True"
                    <=> action[c].status = "completed"
                 /\ wait[c].value = "True"
                    <=> result[c].outcome = "returned"
                 /\ wait[c].value = None
                    <=> result[c].outcome = "DOException"
           /\ ~wait[c].ended => action[c].status = "in-progress"
           /\ polls[c] = 0 /\ action[c].status = "completed"
              => wait[c].ended /\ wait[c].value = "True"
           /\ polls[c] = 0 /\ action[c].status \in FailStatuses
              => /\ wait[c].ended
                 /\ result[c].outcome = "DOException"
                 /\ result[c].message = "Action failed ({r})"
                 /\ result[c].status = action[c].status

\* an Action that is 'errored' when the wait begins
C30_Witness ==
    \E c \in DOMAIN pc :
        /\ Done(c)
        /\ action[c] # NoAction
        /\ action[c].status = "errored"
        /\ polls[c] = 0
        /\ wait[c].at = started_at[c]
        /\ result[c].outcome = "DOException"
        /\ result[c].message = "Action failed ({r})"

\* The list the classifier of a controller puts the volume v in.
CategoryOf(cluster_id, v) ==
    LET res == categorize_do_volume_of(cluster_id, NoCategories, v)
    IN  CHOOSE k \in {"ignored", "wrong_cluster", "okay"} : res[k] = <<v>>

\* The ids of the volumes the create calls named so far have made.
CreatedBy(name) ==
    {vol[c].id : c \in {d \in DOMAIN pc : Done(d) /\ Running(d, name)}}

Returns(c, id) ==
    \E k \in 1..Len(result[c].value.volumes) :
        result[c].value.volumes[k].blockdevice_id = id

\* C31: a volume created by create_volume of a controller classifies as
\* okay for a controller of the same cluster id and as wrong_cluster for
\* one of another cluster id; list_volumes of one cluster returns no volume
\* created by the other, whatever both have created before.
C31_ClustersApart ==
    \A c \in DOMAIN pc :
        /\ Done(c) /\ Running(c, "create_volume")
           => /\ CategoryOf(_cluster_id, vol[c]) = "okay"
              /\ _categorize_do_volume(NoCategories, vol[c]).okay = <<vol[c]>>
              /\ CategoryOf(PeerClusterId, vol[c]) = "wrong_cluster"
        /\ Done(c) /\ Running(c, "peer:create_volume")
           => /\ CategoryOf(PeerClusterId, vol[c]) = "okay"
              /\ CategoryOf(_cluster_id, vol[c]) = "wrong_cluster"
              /\ _categorize_do_volume(NoCategories, vol[c]).wrong_cluster
                   = <<vol[c]>>
        /\ Done(c) /\ Running(c, "list_volumes")
           => /\ result[c].outcome = "returned"
              /\ \A id \in CreatedBy("peer:create_volume") : ~Returns(c, id)
        /\ Done(c) /\ Running(c, "peer:list_volumes")
           => /\ result[c].outcome = "returned"
              /\ \A id \in CreatedBy("create_volume") : ~Returns(c, id)

\* both clusters have created a volume for the same dataset id, and this
\* controller lists its own only
C31_Witness ==
    \E c \in DOMAIN pc :
        /\ Done(c)
        /\ Running(c, "list_volumes")
        /\ Len(result[c].value.volumes) = 1
        /\ \E a \in CreatedBy("create_volume") :
              /\ Returns(c, a)
              /\ \E b \in CreatedBy("peer:create_volume") :
                    /\ volumes[b].name = volumes[a].name
                    /\ volumes[b].description # volumes[a].description

\* pc labels at which the next request is a mutation of the volume
MutationLabels ==
    {"attach_volume:attach", "detach_volume:detach", "destroy_volume:detach",
     "destroy_volume:destroy"}

\* C32: in destroy_volume, attach_volume and detach_volume, when a request
\* made after get_volume is answered with not-found (vol.attach, vol.detach
\* or vol.destroy on a volume that is gone, or Action.get_object or
\* load_directly ending the operation before the wait has ended), the
\* operation ends in UnknownVolume for the id it was called with.
C32_NotFoundIsUnknownVolume ==
    [][\A c \in Callers :
          /\ /\ pc[c] \in MutationLabels
             /\ volumes[vol[c].id].none
             /\ pc'[c] # pc[c]
             => /\ pc'[c] = "done"
                /\ result'[c].outcome = "UnknownVolume"
                /\ result'[c].message = op[c].blockdevice_id
          /\ /\ pc[c] \in AwaitLabels
             /\ pc'[c] = "done"
             /\ ~wait'[c].ended
             => /\ result'[c].outcome = "UnknownVolume"
                /\ result'[c].message = op[c].blockdevice_id]_vars

\* attach_volume whose Action.get_object was answered with not-found
C32_Witness ==
    \E c \in DOMAIN pc :
        /\ Done(c)
        /\ Running(c, "attach_volume")
        /\ ~fetched[c].none
        /\ Issued(c, "attach") = 1
        /\ r[c] # 0
        /\ ~wait[c].ended
        /\ result[c].outcome = "UnknownVolume"
        /\ result[c].message = op[c].blockdevice_id

====
